---- MODULE Spec2Model ----
(***************************************************************************)
(* Logo Locator: the relative-rectangle geometry (app/utils.py), the       *)
(* profile evaluation (app/profiles.py), the detection orchestrator        *)
(* (app/detect.py) and the /annotate handler (app/main.py).                *)
(*                                                                         *)
(* Every operation is a synchronous call.  A call action draws the         *)
(* arguments, runs the whole function and leaves the arguments in `call`   *)
(* and the outcome in `ret`; Return hands control back to the caller.      *)
(*                                                                         *)
(* Multipliers are Python floats in the source.  They are modelled as      *)
(* rationals n / MulDen and carried as their numerator n, so that          *)
(* x + mul * w is the rational (x * MulDen + n * w) / MulDen and           *)
(* int(round(.)) is computed as Python computes it (ties to even).         *)
(***************************************************************************)
EXTENDS Integers, Sequences, FiniteSets, TLC

VARIABLES
    pc,     \* position of the operation in progress ("idle" when none is)
    call,   \* the operation in progress and its arguments
    ret,    \* what it returned or raised
    ran,    \* the detectors detect_logo has run so far, in order
    lib,    \* what the OpenCV calls made so far gave back
    files,  \* the profile documents on disk: PROFILE_FILE and its fallback
    procs,  \* the store operations running concurrently, each with its loaded data
    bulk    \* /cut-section-bulk in its loop: next image, manifest and archive so far

vars == <<pc, call, ret, ran, lib, files, procs, bulk>>

----------------------------------------------------------------------------
(* Bounds of the model *)

\* image width and height range over 1..MaxDim
MaxDim == 2
\* raw coordinates and sizes handed to clamp_bbox range over -Slack..MaxDim+Slack
Slack == 2
\* multipliers are the rationals n / MulDen, n in -MulNum..MulNum
MulDen == 2
MulNum == 2
\* images handed to Profile.compute_bbox have width and height in 1..MaxProfDim
MaxProfDim == 3
\* a caller's `scales` list has at most MaxScales entries
MaxScales == 3
\* correlation scores and inlier ratios are the rationals n / ScoreDen
ScoreDen == 2
\* projected corner coordinates are the rationals n / ProjDen
ProjDen == 2
\* a /cut-section-bulk request uploads 0..MaxImages images
MaxImages == 2

(* Program constants *)

\* a scaled template below 8 px in either dimension is skipped
MinTemplateSize == 8
\* scales carry two decimals (round(s, 2)): a scale is n / ScaleDen
ScaleDen == 100

----------------------------------------------------------------------------
(* Values *)

Min(a, b) == IF a <= b THEN a ELSE b
Max(a, b) == IF a >= b THEN a ELSE b
Abs(a) == IF a >= 0 THEN a ELSE 0 - a

\* Optional[float]: None, or a present value
None == <<>>
Some(v) == <<v>>
IsNone(o) == o = <<>>
Val(o) == o[1]

NoCall == [fn |-> "none"]
NoRet == [kind |-> "none"]
NoLib == [orb |-> [stage |-> "not_run"], tm |-> <<>>]
\* Python's None as a detection outcome
\* a file that does not exist
Missing == [kind |-> "missing"]

\* no profile document on disk, a read-only primary location
NoFiles == [primary |-> Missing, fallback |-> Missing,
            primary_writable |-> FALSE, fallback_writable |-> TRUE]

NoProcs == <<>>

\* no /cut-section-bulk request is in its loop
NoBulk == [next |-> 0, manifest |-> <<>>, archive |-> <<>>]

NotFound == [kind |-> "NOT_FOUND"]
\* DetectionResult(method, confidence, bbox); confidence is n / ScoreDen
Detection(method, confidence, bbox) ==
    [kind |-> "detection", method |-> method, confidence |-> confidence, bbox |-> bbox]
BBoxRet(b) == [kind |-> "bbox", bbox |-> b]
Raised(e) == [kind |-> "raise", error |-> e]

\* int(round(n / d)) for d > 0: Python 3 rounds a tie to the even neighbour
PyRound(n, d) ==
    LET q == n \div d
        r == n % d
    IN  IF 2 * r < d THEN q
        ELSE IF 2 * r > d THEN q + 1
        ELSE IF q % 2 = 0 THEN q ELSE q + 1

\* int(n / d) for d > 0: Python's int() truncates towards zero
PyInt(n, d) == IF n >= 0 THEN n \div d ELSE 0 - ((0 - n) \div d)

\* int(round(base + mul * len)), mul = n / MulDen
Offset(base, n, len) == PyRound(base * MulDen + n * len, MulDen)

----------------------------------------------------------------------------
(* app/utils.py *)

\* mutant: the size is clamped against the caller's origin, not the clamped one
clamp_bbox_raw_origin(x, y, w, h, width, height) ==
    LET cx == Max(0, Min(x, width - 1))
        cy == Max(0, Min(y, height - 1))
        cw == Max(1, Min(w, width - x))
        ch == Max(1, Min(h, height - y))
    IN  <<cx, cy, cw, ch>>

clamp_bbox(x, y, w, h, width, height) ==
    LET cx == Max(0, Min(x, width - 1))
        cy == Max(0, Min(y, height - 1))
        cw == Max(1, Min(w, width - cx))
        ch == Max(1, Min(h, height - cy))
    IN  <<cx, cy, cw, ch>>

\* mutant: the right and bottom offsets are measured from the logo's origin
edge_corners_from_origin(logo_bbox, left_mul, top_mul, right_mul, bottom_mul) ==
    LET x == logo_bbox[1]
        y == logo_bbox[2]
        w == logo_bbox[3]
        h == logo_bbox[4]
    IN  << Offset(x, left_mul, w),
           Offset(y, top_mul, h),
           Offset(x, right_mul, w),
           Offset(y, bottom_mul, h) >>

\* the unnormalised corners <<x1, y1, x2, y2>> of rect_from_logo_relative
edge_corners(logo_bbox, left_mul, top_mul, right_mul, bottom_mul) ==
    LET x == logo_bbox[1]
        y == logo_bbox[2]
        w == logo_bbox[3]
        h == logo_bbox[4]
    IN  << Offset(x, left_mul, w),
           Offset(y, top_mul, h),
           Offset(x + w, right_mul, w),
           Offset(y + h, bottom_mul, h) >>

\* mutant: no min/max normalisation of the corners
rect_from_logo_relative_unnormalised(image_shape, logo_bbox, left_mul, top_mul, right_mul, bottom_mul) ==
    LET c == edge_corners(logo_bbox, left_mul, top_mul, right_mul, bottom_mul)
    IN  clamp_bbox(c[1], c[2], c[3] - c[1], c[4] - c[2], image_shape[2], image_shape[1])

\* mutant: the size counts both end pixels
rect_from_logo_relative_inclusive(image_shape, logo_bbox, left_mul, top_mul, right_mul, bottom_mul) ==
    LET c == edge_corners(logo_bbox, left_mul, top_mul, right_mul, bottom_mul)
        x_min == Min(c[1], c[3])
        y_min == Min(c[2], c[4])
        x_max == Max(c[1], c[3])
        y_max == Max(c[2], c[4])
    IN  clamp_bbox(x_min, y_min, x_max - x_min + 1, y_max - y_min + 1,
                   image_shape[2], image_shape[1])

\* image_shape is <<height, width>>, as numpy's img.shape[:2]
rect_from_logo_relative(image_shape, logo_bbox, left_mul, top_mul, right_mul, bottom_mul) ==
    LET height == image_shape[1]
        width == image_shape[2]
        c == edge_corners(logo_bbox, left_mul, top_mul, right_mul, bottom_mul)
        x_min == Min(c[1], c[3])
        y_min == Min(c[2], c[4])
        x_max == Max(c[1], c[3])
        y_max == Max(c[2], c[4])
        bb_w == x_max - x_min
        bb_h == y_max - y_min
    IN  clamp_bbox(x_min, y_min, bb_w, bb_h, width, height)

----------------------------------------------------------------------------
(* app/profiles.py *)

\* the size-mode rectangle of compute_bbox before clamping:
\* [min(x1, x2), min(y1, y2), abs(x2 - x1), abs(y2 - y1)]
size_rect(logo_bbox, left_mul, top_mul, width_mul, height_mul) ==
    LET x == logo_bbox[1]
        y == logo_bbox[2]
        w == logo_bbox[3]
        h == logo_bbox[4]
        x1 == Offset(x, left_mul, w)
        y1 == Offset(y, top_mul, h)
        x2 == Offset(x1, width_mul, w)
        y2 == Offset(y1, height_mul, h)
    IN  <<Min(x1, x2), Min(y1, y2), Abs(x2 - x1), Abs(y2 - y1)>>

\* mutant: width_mul and height_mul are taken for right and bottom edge offsets
size_bbox_as_edges(image_shape, logo_bbox, left_mul, top_mul, width_mul, height_mul) ==
    rect_from_logo_relative(image_shape, logo_bbox, left_mul, top_mul, width_mul, height_mul)

\* the size-mode branch of compute_bbox, with every field present
size_bbox(image_shape, logo_bbox, left_mul, top_mul, width_mul, height_mul) ==
    LET bb == size_rect(logo_bbox, left_mul, top_mul, width_mul, height_mul)
        H == image_shape[1]
        W == image_shape[2]
    IN  clamp_bbox(bb[1], bb[2], bb[3], bb[4], W, H)

\* mutant: the presence check fails only when both fields of the mode are absent;
\* a single absent field then reaches the arithmetic (None * w: TypeError)
compute_bbox_both_absent(self, image_shape, logo_bbox) ==
    IF self.mode = "edge"
    THEN IF IsNone(self.right_mul) /\ IsNone(self.bottom_mul)
         THEN Raised("ValueError")
         ELSE IF IsNone(self.right_mul) \/ IsNone(self.bottom_mul)
         THEN Raised("TypeError")
         ELSE BBoxRet(rect_from_logo_relative(image_shape, logo_bbox,
                  self.left_mul, self.top_mul, Val(self.right_mul), Val(self.bottom_mul)))
    ELSE IF IsNone(self.width_mul) /\ IsNone(self.height_mul)
         THEN Raised("ValueError")
         ELSE IF IsNone(self.width_mul) \/ IsNone(self.height_mul)
         THEN Raised("TypeError")
         ELSE BBoxRet(size_bbox(image_shape, logo_bbox,
                  self.left_mul, self.top_mul, Val(self.width_mul), Val(self.height_mul)))

\* Profile.compute_bbox: a bbox, or the ValueError it raises
compute_bbox(self, image_shape, logo_bbox) ==
    IF self.mode = "edge"
    THEN IF IsNone(self.right_mul) \/ IsNone(self.bottom_mul)
         THEN Raised("ValueError")
         ELSE BBoxRet(rect_from_logo_relative(image_shape, logo_bbox,
                  self.left_mul, self.top_mul, Val(self.right_mul), Val(self.bottom_mul)))
    ELSE IF IsNone(self.width_mul) \/ IsNone(self.height_mul)
         THEN Raised("ValueError")
         ELSE BBoxRet(size_bbox(image_shape, logo_bbox,
                  self.left_mul, self.top_mul, Val(self.width_mul), Val(self.height_mul)))

----------------------------------------------------------------------------
(* app/detect.py *)

\* What cv2 hands back to detect_with_orb.  `stage` is how far the pipeline got:
\* "few_keypoints" (no descriptors, or fewer than 4 keypoints in either image),
\* "few_matches" (fewer than min_matches good matches), "no_homography"
\* (findHomography gave None), or "projected", with the extremes of the projected
\* template corners (np.min / np.max of xs and ys, as n / ProjDen) and the inlier
\* ratio sum(mask) / len(mask) (as n / ScoreDen).

\* mutant: the projected bounding rectangle is reported without clamping
detect_with_orb_unclamped(image_shape, o) ==
    IF o.stage # "projected"
    THEN NotFound
    ELSE Detection("orb", Min(ScoreDen, Max(0, o.inlier_ratio)),
                   << PyInt(o.xs_min, ProjDen), PyInt(o.ys_min, ProjDen),
                      PyInt(o.xs_max, ProjDen) - PyInt(o.xs_min, ProjDen),
                      PyInt(o.ys_max, ProjDen) - PyInt(o.ys_min, ProjDen) >>)

detect_with_orb(image_shape, o) ==
    IF o.stage # "projected"
    THEN NotFound
    ELSE LET x_min == PyInt(o.xs_min, ProjDen)
             x_max == PyInt(o.xs_max, ProjDen)
             y_min == PyInt(o.ys_min, ProjDen)
             y_max == PyInt(o.ys_max, ProjDen)
             Hh == image_shape[1]
             Hw == image_shape[2]
             b == clamp_bbox(x_min, y_min, x_max - x_min, y_max - y_min, Hw, Hh)
         IN  Detection("orb", Min(ScoreDen, Max(0, o.inlier_ratio)), b)

\* cv2.resize(..., fx=s, fy=s): a side becomes round(side * s)
scaled_side(side, s) == PyRound(side * s, ScaleDen)

\* cv2.resize raises when the scaled template would have an empty side
resize_raises(tmpl_shape, s) ==
    scaled_side(tmpl_shape[1], s) = 0 \/ scaled_side(tmpl_shape[2], s) = 0

\* mutant: a scaled template as large as the image is let through
size_filter_skips_larger_only(image_shape, th, tw) ==
    th > image_shape[1] \/ tw > image_shape[2]
        \/ th < MinTemplateSize \/ tw < MinTemplateSize

\* the `continue` of the scale loop
size_filter_skips(image_shape, th, tw) ==
    th >= image_shape[1] \/ tw >= image_shape[2]
        \/ th < MinTemplateSize \/ tw < MinTemplateSize

\* best_val = -1.0, best = None
NoBest == [raised |-> FALSE, best_val |-> 0 - ScoreDen, best |-> None]

\* mutant: every scale that passes the filter replaces the best so far
better_score_always(max_val, best_val) == TRUE

\* `if max_val > best_val`
better_score(max_val, best_val) == max_val > best_val

\* the scale loop from scale i on; match[i] is what minMaxLoc gave for scale i
RECURSIVE scale_loop(_, _, _, _, _, _)
scale_loop(image_shape, tmpl_shape, scales, match, i, acc) ==
    IF i > Len(scales)
    THEN acc
    ELSE IF resize_raises(tmpl_shape, scales[i])
    THEN [acc EXCEPT !.raised = TRUE]
    ELSE LET th == scaled_side(tmpl_shape[1], scales[i])
             tw == scaled_side(tmpl_shape[2], scales[i])
         IN  IF size_filter_skips(image_shape, th, tw)
             THEN scale_loop(image_shape, tmpl_shape, scales, match, i + 1, acc)
             ELSE IF better_score(match[i].max_val, acc.best_val)
             THEN scale_loop(image_shape, tmpl_shape, scales, match, i + 1,
                      [acc EXCEPT !.best_val = match[i].max_val,
                                  !.best = Some(<<match[i].max_loc[1], match[i].max_loc[2],
                                                  tw, th, match[i].max_val>>)])
             ELSE scale_loop(image_shape, tmpl_shape, scales, match, i + 1, acc)

detect_with_template(image_shape, tmpl_shape, scales, match) ==
    LET acc == scale_loop(image_shape, tmpl_shape, scales, match, 1, NoBest)
    IN  IF acc.raised
        THEN Raised("cv2.error")
        ELSE IF IsNone(acc.best)
        THEN NotFound
        ELSE LET best == Val(acc.best)
                 Hh == image_shape[1]
                 Hw == image_shape[2]
                 b == clamp_bbox(best[1], best[2], best[3], best[4], Hw, Hh)
             IN  Detection("template", best[5], b)

\* method = (method or "auto").lower()
lower_method(method) ==
    CASE method = "" -> "auto"
      [] method = "AUTO" -> "auto"
      [] OTHER -> method

\* mutant: only "orb" runs Feature-Match
first_detector_orb_only(method) ==
    IF method = "orb" THEN "orb" ELSE "template"

\* `if method in ("auto", "orb")`: the detector detect_logo runs first
first_detector(method) ==
    IF method \in {"auto", "orb"} THEN "orb" ELSE "template"

\* mutant: a failed Feature-Match ends the detection under every method
after_orb_no_fallback(method, res) == "returned"

\* what detect_logo does with the Feature-Match outcome: return it, return None
\* (method "orb"), or fall back to Template-Match
after_orb(method, res) ==
    IF res # NotFound THEN "returned"
    ELSE IF method = "orb" THEN "returned"
    ELSE "template"

----------------------------------------------------------------------------
(* app/main.py *)

\* raise HTTPException(status_code=..., detail=...)
HttpError(status, detail) == [kind |-> "http_error", status |-> status, detail |-> detail]

\* StreamingResponse of the PNG of an image on which `drawn` was drawn, in order
ImageResponse(drawn) == [kind |-> "image", drawn |-> drawn]

\* one cv2.rectangle
Rect(bbox, color, thickness) == [bbox |-> bbox, color |-> color, thickness |-> thickness]

\* cv2.rectangle raises for a thickness above its MAX_THICKNESS
draw_raises(thickness) == thickness > 32767

\* What get_profile(name) gives: None, a Profile, or the ValidationError of
\* Profile(**p) on a stored entry that is no valid profile
Absent == [kind |-> "absent"]
Invalid == [kind |-> "invalid"]
Stored(p) == [kind |-> "profile", profile |-> p]

\* The form fields an explicit edge-mode and size-mode rectangle is rounded
\* from.  A request's `nan` names the multiplier sent as NaN ("" for none):
\* a float form field accepts it, and int(round(...)) of it raises ValueError.
EdgeMuls == {"section_left_mul", "section_top_mul", "section_right_mul", "section_bottom_mul"}
SizeMuls == {"section_left_mul", "section_top_mul", "section_width_mul", "section_height_mul"}

\* The body of annotate's try block up to the secondary rectangle: BBoxRet(b),
\* NoRet when there is nothing to draw (sec_bbox stays None), or what it raises.
\* A profile name is used when truthy (`if profile:`): present and not empty.
secondary_bbox(req) ==
    IF ~IsNone(req.profile) /\ Val(req.profile) # ""
    THEN IF req.lookup = Absent
         THEN HttpError(404, "Profile not found")
         ELSE IF req.lookup = Invalid
         THEN Raised("ValidationError")
         ELSE compute_bbox(req.lookup.profile, req.image_shape, req.detection.bbox)
    ELSE IF ~IsNone(req.section_left_mul) /\ ~IsNone(req.section_top_mul)
    THEN IF ~IsNone(req.section_right_mul) /\ ~IsNone(req.section_bottom_mul)
         THEN IF req.nan \in EdgeMuls THEN Raised("ValueError") ELSE
              BBoxRet(rect_from_logo_relative(req.image_shape, req.detection.bbox,
                  Val(req.section_left_mul), Val(req.section_top_mul),
                  Val(req.section_right_mul), Val(req.section_bottom_mul)))
         ELSE IF ~IsNone(req.section_width_mul) /\ ~IsNone(req.section_height_mul)
         THEN IF req.nan \in SizeMuls THEN Raised("ValueError") ELSE
              BBoxRet(size_bbox(req.image_shape, req.detection.bbox,
                  Val(req.section_left_mul), Val(req.section_top_mul),
                  Val(req.section_width_mul), Val(req.section_height_mul)))
         ELSE NoRet
    ELSE NoRet

\* the steps of annotate before the secondary rectangle: what ends the request
\* early, or NoRet when the primary bbox has been drawn
annotate_primary(req) ==
    IF req.template = "missing"
    THEN HttpError(400, "No template provided")
    ELSE IF ~req.image_ok \/ req.template = "undecodable"
    THEN Raised("ValueError")
    ELSE IF req.detection.kind = "raise"
    THEN req.detection
    ELSE IF req.detection = NotFound
    THEN HttpError(404, "Logo not found")
    ELSE IF draw_raises(req.thickness)
    THEN Raised("cv2.error")
    ELSE NoRet

\* mutant: no try/except around the secondary rectangle
annotate_unguarded(req) ==
    LET early == annotate_primary(req)
        primary == Rect(req.detection.bbox, "red", req.thickness)
        sec == secondary_bbox(req)
    IN  IF early # NoRet THEN early
        ELSE IF sec.kind = "bbox"
        THEN IF draw_raises(req.section_thickness)
             THEN Raised("cv2.error")
             ELSE ImageResponse(<<primary, Rect(sec.bbox, "green", req.section_thickness)>>)
        ELSE IF sec = NoRet
        THEN ImageResponse(<<primary>>)
        ELSE sec

\* POST /annotate
annotate(req) ==
    LET early == annotate_primary(req)
        primary == Rect(req.detection.bbox, "red", req.thickness)
        sec == secondary_bbox(req)
    IN  IF early # NoRet THEN early
        ELSE IF sec.kind = "bbox" /\ ~draw_raises(req.section_thickness)
        THEN ImageResponse(<<primary, Rect(sec.bbox, "green", req.section_thickness)>>)
        \* `except Exception: pass`: out still holds the primary annotation
        ELSE ImageResponse(<<primary>>)

\* crop_to_bbox: the region of the image the crop holds
crop_to_bbox(image_shape, bbox) ==
    clamp_bbox(bbox[1], bbox[2], bbox[3], bbox[4], image_shape[2], image_shape[1])

\* StreamingResponse of the PNG of the crop
CropResponse(region) == [kind |-> "crop", region |-> region]

\* POST /cut-section: the same steps with no try around the section bbox
cut_section(req) ==
    LET sec == secondary_bbox(req)
    IN  IF req.template = "missing"
        THEN HttpError(400, "No template provided")
        ELSE IF ~req.image_ok \/ req.template = "undecodable"
        THEN Raised("ValueError")
        ELSE IF req.detection.kind = "raise"
        THEN req.detection
        ELSE IF req.detection = NotFound
        THEN HttpError(404, "Logo not found")
        ELSE IF sec = NoRet
        THEN HttpError(400, "Provide a profile or section multipliers")
        ELSE IF sec.kind = "bbox"
        THEN CropResponse(crop_to_bbox(req.image_shape, sec.bbox))
        ELSE sec

\* One image of /cut-section-bulk seen as a /cut-section request: the form
\* fields of the bulk request with the image's own content; get_profile is
\* called anew for each image.
image_request(req, img) ==
    [template |-> req.template, image_ok |-> img.image_ok,
     image_shape |-> img.image_shape, detection |-> img.detection,
     profile |-> req.profile, lookup |-> img.lookup,
     section_left_mul |-> req.section_left_mul, section_top_mul |-> req.section_top_mul,
     section_right_mul |-> req.section_right_mul,
     section_bottom_mul |-> req.section_bottom_mul,
     section_width_mul |-> req.section_width_mul,
     section_height_mul |-> req.section_height_mul, nan |-> req.nan]

\* manifest entries
Entry(file, status) == [file |-> file, status |-> status]
ErrorEntry(file, error) == [file |-> file, status |-> "error", error |-> error]
OkEntry(file, detection, sec_bbox) ==
    [file |-> file, status |-> "ok", logo_bbox |-> detection.bbox,
     section_bbox |-> sec_bbox, method |-> detection.method,
     confidence |-> detection.confidence]

\* zf.writestr(f"{name}_section.png", png) and zf.writestr("manifest.json", ...)
SectionFile(file, region) == [member |-> "section", of |-> file, region |-> region]
ManifestFile(manifest) == [member |-> "manifest.json", manifest |-> manifest]

\* what one pass of the loop appends
Appends(entries, members) == [manifest |-> entries, archive |-> members]

\* mutant: an exception leaves the loop body with no manifest entry
bulk_image_drops_errors(req, img) ==
    LET r == image_request(req, img)
        sec == secondary_bbox(r)
    IN  IF ~img.image_ok \/ img.detection.kind = "raise"
        THEN Appends(<<>>, <<>>)
        ELSE IF img.detection = NotFound
        THEN Appends(<<Entry(img.filename, "logo_not_found")>>, <<>>)
        ELSE IF sec = NoRet
        THEN Appends(<<Entry(img.filename, "no_section_params")>>, <<>>)
        ELSE IF sec.kind = "http_error"
        THEN Appends(<<Entry(img.filename, "profile_not_found")>>, <<>>)
        ELSE IF sec.kind = "raise"
        THEN Appends(<<>>, <<>>)
        ELSE Appends(<<OkEntry(img.filename, img.detection, sec.bbox)>>,
                     <<SectionFile(img.filename, crop_to_bbox(img.image_shape, sec.bbox))>>)

\* cut_section_bulk, lines 238-288: the body of the loop for one image
bulk_image(req, img) ==
    LET r == image_request(req, img)
        sec == secondary_bbox(r)
    IN  IF ~img.image_ok
        THEN Appends(<<ErrorEntry(img.filename, "ValueError")>>, <<>>)
        ELSE IF img.detection.kind = "raise"
        THEN Appends(<<ErrorEntry(img.filename, img.detection.error)>>, <<>>)
        ELSE IF img.detection = NotFound
        THEN Appends(<<Entry(img.filename, "logo_not_found")>>, <<>>)
        ELSE IF sec = NoRet
        THEN Appends(<<Entry(img.filename, "no_section_params")>>, <<>>)
        ELSE IF sec.kind = "http_error"
        THEN Appends(<<Entry(img.filename, "profile_not_found")>>, <<>>)
        ELSE IF sec.kind = "raise"
        THEN Appends(<<ErrorEntry(img.filename, sec.error)>>, <<>>)
        ELSE Appends(<<OkEntry(img.filename, img.detection, sec.bbox)>>,
                     <<SectionFile(img.filename, crop_to_bbox(img.image_shape, sec.bbox))>>)

\* StreamingResponse of the zip archive
ZipResponse(archive) == [kind |-> "zip", archive |-> archive]

----------------------------------------------------------------------------
(* app/profiles.py: the profile store *)

\* A file holding a JSON object name -> profile, as save_profiles writes it.
\* The object is modelled as the set of its profiles, one per name.
Document(data) == [kind |-> "dict", data |-> data]

\* A file that exists but cannot be opened or parsed, or holds no JSON object
Unreadable == [kind |-> "unreadable"]

ProfileRet(p) == [kind |-> "profile", profile |-> p]
BoolRet(b) == [kind |-> "bool", value |-> b]

\* `name in data`
has_name(data, name) == \E q \in data : q.name = name

\* data[name]
entry(data, name) == CHOOSE q \in data : q.name = name

\* load_profiles: the first of PROFILE_FILE, _FALLBACK_PROFILE_FILE that exists
\* and parses to a dict; {} when neither does
load_profiles(fs) ==
    IF fs.primary.kind = "dict" THEN fs.primary.data
    ELSE IF fs.fallback.kind = "dict" THEN fs.fallback.data
    ELSE {}

\* save_profiles raises when neither file can be opened for writing
save_raises(fs) == ~fs.primary_writable /\ ~fs.fallback_writable

\* save_profiles: write PROFILE_FILE, and on PermissionError or OSError the
\* fallback file instead; the files left when that raises too
save_profiles(fs, data) ==
    IF fs.primary_writable THEN [fs EXCEPT !.primary = Document(data)]
    ELSE IF fs.fallback_writable THEN [fs EXCEPT !.fallback = Document(data)]
    ELSE fs

\* get_profile.  Entries are model dumps written by upsert_profile: not empty
\* (`if not p` is false for them) and valid for Profile(**p).
get_profile(fs, name) ==
    LET data == load_profiles(fs)
    IN  IF has_name(data, name) THEN Stored(entry(data, name)) ELSE Absent

\* data[profile.name] = profile.model_dump()
with_profile(data, profile) == {q \in data : q.name # profile.name} \cup {profile}

\* del data[name]
without_name(data, name) == {q \in data : q.name # name}

\* upsert_profile: the files it leaves and what it returns or raises
upsert_profile(fs, profile) ==
    LET data == with_profile(load_profiles(fs), profile)
    IN  [files |-> save_profiles(fs, data),
         ret |-> IF save_raises(fs) THEN Raised("OSError") ELSE ProfileRet(profile)]

\* delete_profile: the files it leaves and what it returns or raises
delete_profile(fs, name) ==
    LET data == load_profiles(fs)
    IN  IF has_name(data, name)
        THEN [files |-> save_profiles(fs, without_name(data, name)),
              ret |-> IF save_raises(fs) THEN Raised("OSError") ELSE BoolRet(TRUE)]
        ELSE [files |-> fs, ret |-> BoolRet(FALSE)]

----------------------------------------------------------------------------
(* Inputs *)

Dims == 1..MaxDim
Raw == (0 - Slack)..(MaxDim + Slack)
Muls == (0 - MulNum)..MulNum
Shapes == Dims \X Dims

\* the BoundingBox invariant of a bbox for an image of the given size
ValidBBox(b, width, height) ==
    /\ 0 <= b[1] /\ b[1] < width
    /\ 0 <= b[2] /\ b[2] < height
    /\ b[3] >= 1 /\ b[4] >= 1
    /\ b[1] + b[3] <= width
    /\ b[2] + b[4] <= height

\* the logo bboxes a detection can report for an image of this shape
LogoBBoxes(image_shape) ==
    { b \in (0..(image_shape[2] - 1)) \X (0..(image_shape[1] - 1))
            \X (1..image_shape[2]) \X (1..image_shape[1]) :
        ValidBBox(b, image_shape[2], image_shape[1]) }

\* the end-to-end scenario: an 800x600 image, the logo found at [300,200,100,50],
\* relative_rect(image.shape, bbox, 0, 1.0, 1.0, 3.0)
ScenarioShape == <<600, 800>>
ScenarioBBox == <<300, 200, 100, 50>>
ScenarioArgs ==
    [image_shape |-> ScenarioShape, logo_bbox |-> ScenarioBBox,
     left_mul |-> 0, top_mul |-> MulDen, right_mul |-> MulDen, bottom_mul |-> 3 * MulDen]

RelArgs ==
    UNION { [image_shape : {s}, logo_bbox : LogoBBoxes(s),
             left_mul : Muls, top_mul : Muls, right_mul : Muls, bottom_mul : Muls] :
            s \in Shapes }
    \cup {ScenarioArgs}

\* Optional[float] fields
OptMuls == {None} \cup {Some(m) : m \in Muls}

\* left and top offsets of the profiles tried: at most half a logo either way
OffMuls == { m \in Muls : 2 * Abs(m) <= MulDen }

\* the fields of the other mode: both left at their default None, or both set
Unused == { <<None, None>>, <<Some(0), Some(MulDen)>> }

\* class Profile(BaseModel); mode is Literal["edge", "size"]
Profiles ==
    { [name |-> "p", mode |-> "edge", left_mul |-> l, top_mul |-> t,
       right_mul |-> r, bottom_mul |-> b, width_mul |-> u[1], height_mul |-> u[2],
       section_thickness |-> 3] :
        l \in OffMuls, t \in OffMuls, r \in OptMuls, b \in OptMuls, u \in Unused }
    \cup
    { [name |-> "p", mode |-> "size", left_mul |-> l, top_mul |-> t,
       right_mul |-> u[1], bottom_mul |-> u[2], width_mul |-> wm, height_mul |-> hm,
       section_thickness |-> 3] :
        l \in OffMuls, t \in OffMuls, wm \in OptMuls, hm \in OptMuls, u \in Unused }

ProfShapes == (1..MaxProfDim) \X (1..MaxProfDim)

\* image and template sides around the 8 px threshold
ImgSides == {MinTemplateSize, MinTemplateSize + 1, 2 * MinTemplateSize + 1}
TmplSides == {1, MinTemplateSize \div 2, MinTemplateSize}
ImgShapes == ImgSides \X ImgSides
TmplShapes == TmplSides \X TmplSides

\* scales 0.5, 1.0, 1.5, 2.0: four of np.linspace(0.4, 2.0, num=33)
ScaleSet == {50, 100, 150, 200}
\* the default scale sweep, thinned to those four
DefaultScales == <<50, 100, 150, 200>>

\* the lists of at most n distinct members of S
RECURSIVE DistinctSeqs(_, _)
DistinctSeqs(S, n) ==
    IF n = 0 THEN {<<>>}
    ELSE {<<>>} \cup { <<x>> \o q : x \in S, q \in DistinctSeqs(S, n - 1) }

ScaleLists ==
    { q \in DistinctSeqs(ScaleSet, MaxScales) :
        \A i \in 1..Len(q) : \A j \in 1..Len(q) : i # j => q[i] # q[j] }

\* max_val of a correlation surface with at least four positions: within (-1, 1]
Scores == (1 - ScoreDen)..ScoreDen

\* not reached, or skipped by the size filter: matchTemplate is not called
Unmatched == [matched |-> FALSE]

\* what minMaxLoc can give for a th x tw template: a score, and a location on the
\* (H - th + 1) x (W - tw + 1) surface (its first and last position are tried)
Matches(image_shape, th, tw) ==
    [matched : {TRUE}, max_val : Scores,
     max_loc : {<<0, 0>>, <<image_shape[2] - tw, image_shape[1] - th>>}]

\* what the cv2 calls of one scale loop can give, scale by scale
RECURSIVE MatchSeqs(_, _, _)
MatchSeqs(image_shape, tmpl_shape, scales) ==
    IF scales = <<>> THEN {<<>>}
    ELSE IF resize_raises(tmpl_shape, Head(scales))
    THEN { [i \in 1..Len(scales) |-> Unmatched] }
    ELSE LET th == scaled_side(tmpl_shape[1], Head(scales))
             tw == scaled_side(tmpl_shape[2], Head(scales))
             here == IF size_filter_skips(image_shape, th, tw)
                     THEN {Unmatched}
                     ELSE Matches(image_shape, th, tw)
         IN  { <<m>> \o rest : m \in here,
                               rest \in MatchSeqs(image_shape, tmpl_shape, Tail(scales)) }

\* projected coordinates tried along a side of length dim (as n / ProjDen):
\* left of the image, just inside either edge, and right of it
ProjCoords(dim) ==
    {0 - ProjDen - 1, 1, ProjDen * dim - 1, ProjDen * dim + ProjDen + 1}

OrbOutcomes(image_shape) ==
    { [stage |-> "few_keypoints"], [stage |-> "few_matches"], [stage |-> "no_homography"] }
    \cup
    { o \in [stage : {"projected"},
             xs_min : ProjCoords(image_shape[2]), xs_max : ProjCoords(image_shape[2]),
             ys_min : ProjCoords(image_shape[1]), ys_max : ProjCoords(image_shape[1]),
             inlier_ratio : 0..ScoreDen] :
        o.xs_min <= o.xs_max /\ o.ys_min <= o.ys_max }

\* the method strings callers pass
RawMethods == {"auto", "orb", "template", "AUTO", "", "sift"}

\* /annotate requests.  The image is MaxProfDim x MaxProfDim; a detection is any
\* DetectionResult whose bbox lies in the image.
AnnShape == <<MaxProfDim, MaxProfDim>>

AnnDetections ==
    {NotFound, Raised("cv2.error")}
    \cup { Detection("orb", ScoreDen, b) : b \in LogoBBoxes(AnnShape) }

\* stored profiles: every pattern of present and absent optional fields
AnnProfiles ==
    { p \in Profiles :
        /\ p.left_mul = 0 /\ p.top_mul = 0
        /\ \A f \in {p.right_mul, p.bottom_mul, p.width_mul, p.height_mul} :
              f \in {None, Some(0), Some(MulDen)} }

AnnLookups == {Absent, Invalid} \cup { Stored(p) : p \in AnnProfiles }

\* thickness and section_thickness: the form defaults, and one cv2 cannot draw
Thicknesses == {4, 32768}
SectionThicknesses == {3, 32768}

\* requests that carry a profile name
ProfileRequests ==
    [template : {"ok"}, image_ok : {TRUE}, image_shape : {AnnShape},
     detection : AnnDetections,
     thickness : Thicknesses, section_thickness : SectionThicknesses,
     profile : {Some("p")}, lookup : AnnLookups,
     section_left_mul : {None, Some(0)}, section_top_mul : {None, Some(0)},
     section_right_mul : {Some(MulDen)}, section_bottom_mul : {Some(MulDen)},
     section_width_mul : {None}, section_height_mul : {None}, nan : {""}]

\* requests with explicit multipliers (no profile, or an empty name):
\* get_profile is not called
ExplicitRequests ==
  { r \in
    [template : {"ok"}, image_ok : {TRUE}, image_shape : {AnnShape},
     detection : AnnDetections,
     thickness : Thicknesses, section_thickness : SectionThicknesses,
     profile : {None, Some("")}, lookup : {Absent},
     section_left_mul : {None, Some(0 - 1)}, section_top_mul : {None, Some(1)},
     section_right_mul : {None, Some(MulDen)}, section_bottom_mul : {None, Some(MulDen)},
     section_width_mul : {None, Some(MulDen)}, section_height_mul : {None, Some(MulDen)},
     nan : {"", "section_left_mul", "section_bottom_mul", "section_width_mul"}] :
    r.nan # "" => ~IsNone(r[r.nan]) }

\* requests whose image or template cannot be read
UnreadableRequests ==
    { r \in [template : {"ok", "missing", "undecodable"}, image_ok : BOOLEAN,
             image_shape : {AnnShape}, detection : {NotFound},
             thickness : {4}, section_thickness : {3},
             profile : {None}, lookup : {Absent},
             section_left_mul : {None}, section_top_mul : {None},
             section_right_mul : {None}, section_bottom_mul : {None},
             section_width_mul : {None}, section_height_mul : {None}, nan : {""}] :
        r.template # "ok" \/ ~r.image_ok }

AnnotateRequests == ProfileRequests \cup ExplicitRequests \cup UnreadableRequests

\* The profile store: two names, two profiles a name can carry
StoreNames == {"p", "q"}

EdgeProfile(n) ==
    [name |-> n, mode |-> "edge", left_mul |-> 0, top_mul |-> 0,
     right_mul |-> Some(MulDen), bottom_mul |-> Some(MulDen),
     width_mul |-> None, height_mul |-> None, section_thickness |-> 3]

SizeProfile(n) ==
    [name |-> n, mode |-> "size", left_mul |-> 0, top_mul |-> 0,
     right_mul |-> None, bottom_mul |-> None,
     width_mul |-> Some(MulDen), height_mul |-> Some(MulDen), section_thickness |-> 3]

StoreProfiles == { EdgeProfile(n) : n \in StoreNames } \cup { SizeProfile(n) : n \in StoreNames }

\* the JSON objects upsert_profile and delete_profile can have written
Dicts == { d \in SUBSET StoreProfiles : \A a \in d, b \in d : a.name = b.name => a = b }

FileStates == {Missing, Unreadable} \cup { Document(d) : d \in Dicts }

\* every combination of the two files' contents and of what can be written
StoreStates ==
    [primary : FileStates, fallback : FileStates,
     primary_writable : BOOLEAN, fallback_writable : BOOLEAN]

\* Uploads of /cut-section-bulk: an image that does not decode, one in which
\* detection raises or finds nothing, and one with a detected logo, for which
\* get_profile then gives each of its outcomes
BulkLookups ==
    {Absent, Invalid, Stored(EdgeProfile("p")),
     Stored([SizeProfile("p") EXCEPT !.width_mul = None])}

Uploads ==
    { u \in [filename : {"a.png", "b.png"}, image_ok : BOOLEAN,
             image_shape : {AnnShape},
             detection : {NotFound, Raised("cv2.error"),
                          Detection("orb", ScoreDen, <<0, 0, 1, 1>>)},
             lookup : BulkLookups] :
        (~u.image_ok \/ u.detection.kind # "detection") =>
            (u.lookup = Absent /\ (~u.image_ok => u.detection = NotFound)) }

UploadLists == UNION { [1..n -> Uploads] : n \in 0..MaxImages }

\* the form fields of a bulk request: a profile name, edge or size
\* multipliers (one of them NaN or not), or nothing
BulkForm(template, profile, given, nan) ==
    [template |-> template, profile |-> profile,
     section_left_mul |-> IF "section_left_mul" \in given THEN Some(0) ELSE None,
     section_top_mul |-> IF "section_top_mul" \in given THEN Some(0) ELSE None,
     section_right_mul |-> IF "section_right_mul" \in given THEN Some(MulDen) ELSE None,
     section_bottom_mul |-> IF "section_bottom_mul" \in given THEN Some(MulDen) ELSE None,
     section_width_mul |-> IF "section_width_mul" \in given THEN Some(MulDen) ELSE None,
     section_height_mul |-> IF "section_height_mul" \in given THEN Some(MulDen) ELSE None,
     nan |-> nan]

BulkForms ==
    { BulkForm("ok", Some("p"), {}, ""),
      BulkForm("ok", None, {}, ""),
      BulkForm("ok", None, EdgeMuls, ""),
      BulkForm("ok", None, EdgeMuls, "section_bottom_mul"),
      BulkForm("ok", None, SizeMuls, ""),
      BulkForm("ok", Some(""), {"section_left_mul", "section_width_mul"}, ""),
      BulkForm("missing", None, EdgeMuls, ""),
      BulkForm("undecodable", None, EdgeMuls, "") }

----------------------------------------------------------------------------
(* State machine *)

Init ==
    /\ pc = "idle"
    /\ call = NoCall
    /\ ret = NoRet
    /\ ran = <<>>
    /\ lib = NoLib
    /\ files = NoFiles
    /\ procs = NoProcs
    /\ bulk = NoBulk

Return ==
    /\ pc = "returned"
    /\ pc' = "idle"
    /\ call' = NoCall
    /\ ret' = NoRet
    /\ ran' = <<>>
    /\ lib' = NoLib
    /\ UNCHANGED <<files, procs, bulk>>

\* a caller invokes clamp_bbox(x, y, w, h, width, height)
ClampCall ==
    /\ pc = "idle"
    /\ \E x \in Raw, y \in Raw, w \in Raw, h \in Raw, width \in Dims, height \in Dims :
          /\ call' = [fn |-> "clamp_bbox", x |-> x, y |-> y, w |-> w, h |-> h,
                      width |-> width, height |-> height]
          /\ ret' = BBoxRet(clamp_bbox(x, y, w, h, width, height))
    /\ pc' = "returned"
    /\ UNCHANGED <<ran, lib>>
    /\ UNCHANGED <<files, procs, bulk>>

NextClamp == ClampCall \/ Return

SpecClamp == Init /\ [][NextClamp]_vars

----------------------------------------------------------------------------
(* C2: for all integers x, y, w, h and every image size W, H >= 1, the     *)
(* rectangle returned by clamp_bbox satisfies 0 <= x' < W, 0 <= y' < H,    *)
(* w' >= 1, h' >= 1, x' + w' <= W and y' + h' <= H.                        *)
C2_ClampInBounds ==
    (pc = "returned" /\ call.fn = "clamp_bbox")
        => ValidBBox(ret.bbox, call.width, call.height)

\* a rectangle wholly outside the image (negative origin, oversized) was clamped
C2_Witness ==
    /\ pc = "returned" /\ call.fn = "clamp_bbox"
    /\ call.x < 0 /\ call.y >= call.height
    /\ call.w > call.width /\ call.h < 1
    /\ ret.bbox = <<0, call.height - 1, call.width, 1>>

----------------------------------------------------------------------------
\* a caller invokes rect_from_logo_relative on a detected logo bbox
RelativeRectCall ==
    /\ pc = "idle"
    /\ \E a \in RelArgs :
          /\ call' = [fn |-> "rect_from_logo_relative", image_shape |-> a.image_shape,
                      logo_bbox |-> a.logo_bbox, left_mul |-> a.left_mul,
                      top_mul |-> a.top_mul, right_mul |-> a.right_mul,
                      bottom_mul |-> a.bottom_mul]
          /\ ret' = BBoxRet(rect_from_logo_relative(a.image_shape, a.logo_bbox,
                        a.left_mul, a.top_mul, a.right_mul, a.bottom_mul))
    /\ pc' = "returned"
    /\ UNCHANGED <<ran, lib>>
    /\ UNCHANGED <<files, procs, bulk>>

NextRel == RelativeRectCall \/ Return

SpecRel == Init /\ [][NextRel]_vars

RelReturned == pc = "returned" /\ call.fn = "rect_from_logo_relative"

CallCorners ==
    edge_corners(call.logo_bbox, call.left_mul, call.top_mul, call.right_mul, call.bottom_mul)

IsScenario ==
    /\ RelReturned
    /\ call.image_shape = ScenarioShape /\ call.logo_bbox = ScenarioBBox
    /\ call.left_mul = 0 /\ call.top_mul = MulDen
    /\ call.right_mul = MulDen /\ call.bottom_mul = 3 * MulDen

(* C4 as stated: on the 800x600 image with reference bbox [300,200,100,50], *)
(* relative_rect with multipliers 0, 1.0, 1.0, 3.0 computes x1=300, y1=250, *)
(* x2=400, y2=350 and returns [300,250,100,100].                            *)
C4_AsStated ==
    IsScenario => /\ CallCorners = <<300, 250, 400, 350>>
                  /\ ret.bbox = <<300, 250, 100, 100>>

(* C4 amended: in that scenario the corners are x1=300, y1=250, x2=500,     *)
(* y2=400 (x2 = x + w + right_mul*w, y2 = y + h + bottom_mul*h), the        *)
(* returned bbox is [300,250,200,150], and clamping is a no-op.             *)
C4_Scenario ==
    IsScenario => /\ CallCorners = <<300, 250, 500, 400>>
                  /\ ret.bbox = <<300, 250, 200, 150>>
                  /\ ret.bbox = <<CallCorners[1], CallCorners[2],
                                  CallCorners[3] - CallCorners[1],
                                  CallCorners[4] - CallCorners[2]>>

C4_Witness == IsScenario /\ ret.bbox = <<300, 250, 200, 150>>

(* C5: for every reference bbox that satisfies the BoundingBox invariant    *)
(* for the image, relative_rect with all four multipliers 0 returns         *)
(* exactly that bbox.                                                       *)
C5_ZeroMultipliersIdentity ==
    ( /\ RelReturned
      /\ ValidBBox(call.logo_bbox, call.image_shape[2], call.image_shape[1])
      /\ call.left_mul = 0 /\ call.top_mul = 0
      /\ call.right_mul = 0 /\ call.bottom_mul = 0 )
        => ret.bbox = call.logo_bbox

\* zero multipliers on a bbox that touches the right and bottom image edges
C5_Witness ==
    /\ RelReturned
    /\ call.left_mul = 0 /\ call.top_mul = 0
    /\ call.right_mul = 0 /\ call.bottom_mul = 0
    /\ call.logo_bbox[1] > 0 /\ call.logo_bbox[2] > 0
    /\ call.logo_bbox[1] + call.logo_bbox[3] = call.image_shape[2]
    /\ call.logo_bbox[2] + call.logo_bbox[4] = call.image_shape[1]
    /\ ret.bbox = call.logo_bbox

\* the <<left_mul, right_mul>> pairs that put the left corner at x1 and the
\* right corner at x2, for the call's reference bbox
XPairs(x1, x2) ==
    { l \in Muls : Offset(call.logo_bbox[1], l, call.logo_bbox[3]) = x1 }
    \X { r \in Muls :
           Offset(call.logo_bbox[1] + call.logo_bbox[3], r, call.logo_bbox[3]) = x2 }

\* the same for <<top_mul, bottom_mul>> and the y corners
YPairs(y1, y2) ==
    { t \in Muls : Offset(call.logo_bbox[2], t, call.logo_bbox[4]) = y1 }
    \X { b \in Muls :
           Offset(call.logo_bbox[2] + call.logo_bbox[4], b, call.logo_bbox[4]) = y2 }

\* every multiplier set in xs \X ys returns the bbox the call returned
AllReturn(xs, ys) ==
    \A mx \in xs : \A my \in ys :
        rect_from_logo_relative(call.image_shape, call.logo_bbox,
                                mx[1], my[1], mx[2], my[2]) = ret.bbox

(* C6: relative_rect is invariant to inversion: a multiplier set whose      *)
(* unnormalised corners are those of the call with x1 and x2 exchanged      *)
(* and/or y1 and y2 exchanged yields the bbox the call returned, and the    *)
(* returned width and height are never negative.                            *)
C6_InversionInvariant ==
    RelReturned =>
        LET c == CallCorners
            xsame == XPairs(c[1], c[3])
            xexch == XPairs(c[3], c[1])
            ysame == YPairs(c[2], c[4])
            yexch == YPairs(c[4], c[2])
        IN  /\ ret.bbox[3] >= 0 /\ ret.bbox[4] >= 0
            \* each exchanged pair has one member inverted on an exchanged axis:
            \* the pair is compared in the state where the call is that member
            /\ c[3] < c[1] => AllReturn(xexch, ysame \cup yexch)
            /\ c[4] < c[2] => AllReturn(xsame \cup xexch, yexch)

\* an inverted call (x2 left of x1, y2 above y1) that has a non-inverted
\* counterpart and returns a rectangle wider and taller than one pixel
C6_Witness ==
    /\ RelReturned
    /\ CallCorners[3] < CallCorners[1] /\ CallCorners[4] < CallCorners[2]
    /\ XPairs(CallCorners[3], CallCorners[1]) # {}
    /\ YPairs(CallCorners[4], CallCorners[2]) # {}
    /\ ret.bbox[3] > 1 /\ ret.bbox[4] > 1

----------------------------------------------------------------------------
\* a caller evaluates a profile against a detected logo bbox
ComputeBboxCall ==
    /\ pc = "idle"
    /\ \E image_shape \in ProfShapes :
       \E logo_bbox \in LogoBBoxes(image_shape) :
       \E self \in Profiles :
          /\ call' = [fn |-> "compute_bbox", self |-> self,
                      image_shape |-> image_shape, logo_bbox |-> logo_bbox]
          /\ ret' = compute_bbox(self, image_shape, logo_bbox)
    /\ pc' = "returned"
    /\ UNCHANGED <<ran, lib>>
    /\ UNCHANGED <<files, procs, bulk>>

NextProfile == ComputeBboxCall \/ Return

SpecProfile == Init /\ [][NextProfile]_vars

ProfileReturned == pc = "returned" /\ call.fn = "compute_bbox"

\* the edge-mode bbox for the call's left_mul, top_mul, width_mul, height_mul:
\* right_mul = left_mul + width_mul - 1, bottom_mul = top_mul + height_mul - 1
EdgeEquivalent ==
    rect_from_logo_relative(call.image_shape, call.logo_bbox,
        call.self.left_mul, call.self.top_mul,
        call.self.left_mul + Val(call.self.width_mul) - MulDen,
        call.self.top_mul + Val(call.self.height_mul) - MulDen)

(* C7: size mode and edge mode agree up to integer rounding: the bbox of    *)
(* a size-mode profile differs in each of x, y, w, h by at most 1 from      *)
(* the edge-mode bbox with right_mul = left_mul + width_mul - 1 and         *)
(* bottom_mul = top_mul + height_mul - 1.                                   *)
C7_SizeEdgeAgree ==
    (ProfileReturned /\ call.self.mode = "size" /\ ret.kind = "bbox")
        => \A i \in 1..4 : Abs(ret.bbox[i] - EdgeEquivalent[i]) <= 1

\* the two modes round differently: for a size-mode rectangle whose origin lies
\* inside the image, the bboxes differ by one horizontally and vertically
C7_Witness ==
    /\ ProfileReturned /\ call.self.mode = "size" /\ ret.kind = "bbox"
    /\ LET bb == size_rect(call.logo_bbox, call.self.left_mul, call.self.top_mul,
                           Val(call.self.width_mul), Val(call.self.height_mul))
       IN  bb[1] = ret.bbox[1] /\ bb[2] = ret.bbox[2]
    /\ Abs(ret.bbox[1] - EdgeEquivalent[1]) = 1 \/ Abs(ret.bbox[3] - EdgeEquivalent[3]) = 1
    /\ Abs(ret.bbox[2] - EdgeEquivalent[2]) = 1 \/ Abs(ret.bbox[4] - EdgeEquivalent[4]) = 1

\* a field the profile's mode requires is absent
MissingRequired(self) ==
    \/ self.mode = "size" /\ (IsNone(self.width_mul) \/ IsNone(self.height_mul))
    \/ self.mode = "edge" /\ (IsNone(self.right_mul) \/ IsNone(self.bottom_mul))

----------------------------------------------------------------------------
(* detect_with_template, called with a caller's scale list *)

DetectWithTemplateCall ==
    /\ pc = "idle"
    /\ \E image_shape \in ImgShapes, tmpl_shape \in TmplShapes, scales \in ScaleLists :
       \E match \in MatchSeqs(image_shape, tmpl_shape, scales) :
          /\ call' = [fn |-> "detect_with_template", image_shape |-> image_shape,
                      tmpl_shape |-> tmpl_shape, scales |-> scales]
          /\ lib' = [lib EXCEPT !.tm = match]
          /\ ret' = detect_with_template(image_shape, tmpl_shape, scales, match)
    /\ pc' = "returned"
    /\ UNCHANGED ran
    /\ UNCHANGED <<files, procs, bulk>>

NextTemplate == DetectWithTemplateCall \/ Return

SpecTemplate == Init /\ [][NextTemplate]_vars

TemplateReturned == pc = "returned" /\ call.fn = "detect_with_template"

\* scale i of the call passes the size filter: the scaled template is strictly
\* smaller than the image and at least 8 px, in both dimensions
PassesFilter(i) ==
    LET th == scaled_side(call.tmpl_shape[1], call.scales[i])
        tw == scaled_side(call.tmpl_shape[2], call.scales[i])
    IN  /\ th < call.image_shape[1] /\ tw < call.image_shape[2]
        /\ th >= 8 /\ tw >= 8

PassingScales == { i \in 1..Len(call.scales) : PassesFilter(i) }

\* the result is built from scale i: its best location and scaled template size
BuiltFrom(i) ==
    /\ ret.confidence = lib.tm[i].max_val
    /\ ret.bbox = << lib.tm[i].max_loc[1], lib.tm[i].max_loc[2],
                     scaled_side(call.tmpl_shape[2], call.scales[i]),
                     scaled_side(call.tmpl_shape[1], call.scales[i]) >>

\* the best of the passing scales: a Template-Match result with the highest score
BestOfPassing ==
    /\ ret.kind = "detection" /\ ret.method = "template"
    /\ \A i \in PassingScales : lib.tm[i].max_val <= ret.confidence
    /\ \E i \in PassingScales : BuiltFrom(i)

(* C9: detect_with_template returns NOT_FOUND if and only if no scale of    *)
(* the scale set passes the size filter; whenever at least one passes, it   *)
(* returns a result whose confidence is the maximum of the passing scales'  *)
(* best scores and whose bbox is that scale's best location and scaled     *)
(* template size.                                                           *)
C9_BestScaleOrNotFound ==
    TemplateReturned =>
        /\ ret = NotFound <=> PassingScales = {}
        /\ PassingScales # {} => BestOfPassing

\* the part of C9 the code does keep: when it returns at all (no scaled template
\* is empty), NOT_FOUND means no scale passed and a result is the best passing one
C9_WhenItReturns ==
    (TemplateReturned /\ ret.kind # "raise") =>
        /\ ret = NotFound <=> PassingScales = {}
        /\ PassingScales # {} => BestOfPassing

\* three scales pass, the second scores highest, and the result is built from it
C9_BestIsSecond ==
    /\ TemplateReturned
    /\ Cardinality(PassingScales) = 3
    /\ \E i \in PassingScales :
          /\ BuiltFrom(i)
          /\ \E j \in PassingScales : j < i /\ lib.tm[j].max_val < lib.tm[i].max_val
          /\ \E k \in PassingScales : k > i /\ lib.tm[k].max_val < lib.tm[i].max_val

----------------------------------------------------------------------------
(* detect_logo: the orchestrator, one step per detector it runs *)

DetectLogoCall ==
    /\ pc = "idle"
    /\ \E raw \in RawMethods, image_shape \in ImgShapes, tmpl_shape \in TmplShapes :
          /\ call' = [fn |-> "detect_logo", method |-> lower_method(raw),
                      image_shape |-> image_shape, tmpl_shape |-> tmpl_shape]
          /\ pc' = first_detector(lower_method(raw))
    /\ UNCHANGED <<ret, ran, lib>>
    /\ UNCHANGED <<files, procs, bulk>>

\* res = detect_with_orb(img_bgr, tmpl_bgr) and the two returns that follow it
OrbStep ==
    /\ pc = "orb"
    /\ \E o \in OrbOutcomes(call.image_shape) :
          LET res == detect_with_orb(call.image_shape, o)
          IN  /\ lib' = [lib EXCEPT !.orb = o]
              /\ pc' = after_orb(call.method, res)
              /\ ret' = IF after_orb(call.method, res) = "returned" THEN res ELSE ret
    /\ ran' = Append(ran, "orb")
    /\ UNCHANGED call
    /\ UNCHANGED <<files, procs, bulk>>

\* return detect_with_template(img_bgr, tmpl_bgr)
TemplateStep ==
    /\ pc = "template"
    /\ \E match \in MatchSeqs(call.image_shape, call.tmpl_shape, DefaultScales) :
          /\ lib' = [lib EXCEPT !.tm = match]
          /\ ret' = detect_with_template(call.image_shape, call.tmpl_shape,
                                         DefaultScales, match)
    /\ ran' = Append(ran, "template")
    /\ pc' = "returned"
    /\ UNCHANGED call
    /\ UNCHANGED <<files, procs, bulk>>

NextDetect == DetectLogoCall \/ OrbStep \/ TemplateStep \/ Return

SpecDetect == Init /\ [][NextDetect]_vars

DetectReturned == pc = "returned" /\ call.fn = "detect_logo"

\* the outcomes of the two detectors, from what cv2 gave the call
OrbOutcome == detect_with_orb(call.image_shape, lib.orb)
TemplateOutcome ==
    detect_with_template(call.image_shape, call.tmpl_shape, DefaultScales, lib.tm)

(* C1: for method in {"auto", "orb", "template"} the outcome of detect_logo *)
(* is determined by the detectors' outcomes.  "orb": Feature-Match alone    *)
(* runs and its outcome (a result or NOT_FOUND) is returned.  "template":   *)
(* Template-Match alone runs and its outcome is returned.  "auto":          *)
(* Feature-Match runs first and its result is returned if it found the      *)
(* logo; only if it did not, Template-Match runs and its outcome is         *)
(* returned.                                                                *)
C1_OrchestratorPolicy ==
    DetectReturned =>
        /\ call.method = "orb" => ran = <<"orb">> /\ ret = OrbOutcome
        /\ call.method = "template" => ran = <<"template">> /\ ret = TemplateOutcome
        /\ call.method = "auto" =>
              IF ran = <<"orb">>
              THEN OrbOutcome # NotFound /\ ret = OrbOutcome
              ELSE /\ ran = <<"orb", "template">>
                   /\ OrbOutcome = NotFound
                   /\ ret = TemplateOutcome

\* Template-Match never starts before Feature-Match has given its outcome
C1_TemplateOnlyAfterOrb ==
    (call.fn = "detect_logo" /\ call.method \in {"auto", "orb"} /\ pc = "template")
        => ran = <<"orb">> /\ call.method = "auto"
              /\ detect_with_orb(call.image_shape, lib.orb) = NotFound

\* "auto" fell back: Feature-Match found nothing and the Template-Match result
\* is what detect_logo returned
C1_Witness ==
    /\ DetectReturned /\ call.method = "auto"
    /\ ran = <<"orb", "template">>
    /\ lib.orb.stage = "few_matches"
    /\ ret.kind = "detection" /\ ret.method = "template"

(* C3: every DetectionResult detect_logo returns, from either detector,     *)
(* has a bbox that satisfies the BoundingBox invariant for the input image. *)
C3_DetectionBBoxInImage ==
    (DetectReturned /\ ret.kind = "detection")
        => ValidBBox(ret.bbox, call.image_shape[2], call.image_shape[1])

\* Feature-Match projected the template wholly outside the image (right of it
\* and above it) and the reported bbox was clamped into the image
C3_Witness ==
    /\ DetectReturned /\ ret.kind = "detection" /\ ret.method = "orb"
    /\ PyInt(lib.orb.xs_min, ProjDen) >= call.image_shape[2]
    /\ PyInt(lib.orb.ys_max, ProjDen) < 0
    /\ ret.bbox = <<call.image_shape[2] - 1, 0, 1, 1>>

----------------------------------------------------------------------------
(* POST /annotate *)

AnnotateCall ==
    /\ pc = "idle"
    /\ \E req \in AnnotateRequests :
          /\ call' = [fn |-> "annotate", req |-> req]
          /\ ret' = annotate(req)
    /\ pc' = "returned"
    /\ UNCHANGED <<ran, lib>>
    /\ UNCHANGED <<files, procs, bulk>>

NextAnnotate == AnnotateCall \/ Return

SpecAnnotate == Init /\ [][NextAnnotate]_vars

AnnotateReturned == pc = "returned" /\ call.fn = "annotate"

\* the primary detection succeeded and its bbox was drawn
PrimaryAnnotated ==
    /\ call.req.template = "ok" /\ call.req.image_ok
    /\ call.req.detection.kind = "detection"
    /\ call.req.thickness <= 32767

\* evaluating the named profile fails: it is missing or invalid, or lacks a
\* multiplier its mode requires
ProfileFails ==
    /\ ~IsNone(call.req.profile) /\ Val(call.req.profile) # ""
    /\ \/ call.req.lookup \in {Absent, Invalid}
       \/ MissingRequired(call.req.lookup.profile)

\* no profile is named and a multiplier the explicit rectangle uses is NaN
Given(f) == ~IsNone(call.req[f])

BadMultiplier ==
    /\ IsNone(call.req.profile) \/ Val(call.req.profile) = ""
    /\ Given("section_left_mul") /\ Given("section_top_mul")
    /\ IF Given("section_right_mul") /\ Given("section_bottom_mul")
       THEN call.req.nan \in EdgeMuls
       ELSE /\ Given("section_width_mul") /\ Given("section_height_mul")
            /\ call.req.nan \in SizeMuls

SecondaryComputeFails == ProfileFails \/ BadMultiplier

\* drawing the secondary rectangle fails
SecondaryDrawFails ==
    /\ ~SecondaryComputeFails
    /\ secondary_bbox(call.req).kind = "bbox"
    /\ call.req.section_thickness > 32767

(* C10: in /annotate, once the primary detection has succeeded, a failure   *)
(* while computing or drawing the optional secondary rectangle does not     *)
(* fail the request: the response is the image annotated with the primary   *)
(* detection bbox (and with that alone).                                    *)
C10_SecondaryFailureKeepsPrimary ==
    (AnnotateReturned /\ PrimaryAnnotated) =>
        /\ ret.kind = "image"
        /\ ret.drawn[1] = Rect(call.req.detection.bbox, "red", call.req.thickness)
        /\ (SecondaryComputeFails \/ SecondaryDrawFails) => Len(ret.drawn) = 1

\* a size-mode profile without width_mul made compute_bbox raise, and the
\* response is the image with the primary bbox alone
C10_Witness ==
    /\ AnnotateReturned /\ PrimaryAnnotated
    /\ call.req.lookup.kind = "profile"
    /\ call.req.lookup.profile.mode = "size"
    /\ IsNone(call.req.lookup.profile.width_mul)
    /\ ret = ImageResponse(<<Rect(call.req.detection.bbox, "red", call.req.thickness)>>)

\* the same when a NaN multiplier is what fails
C10_BadMultiplierReached ==
    /\ AnnotateReturned /\ PrimaryAnnotated /\ BadMultiplier
    /\ ret = ImageResponse(<<Rect(call.req.detection.bbox, "red", call.req.thickness)>>)

\* the same when drawing the secondary rectangle is what fails
C10_DrawFailureReached ==
    /\ AnnotateReturned /\ PrimaryAnnotated /\ SecondaryDrawFails
    /\ ret = ImageResponse(<<Rect(call.req.detection.bbox, "red", call.req.thickness)>>)

----------------------------------------------------------------------------
(* The profile store, one operation at a time *)

InitStore ==
    /\ pc = "idle"
    /\ call = NoCall
    /\ ret = NoRet
    /\ ran = <<>>
    /\ lib = NoLib
    /\ files \in StoreStates
    /\ procs = NoProcs
    /\ bulk = NoBulk

UpsertCall ==
    /\ pc = "idle"
    /\ \E profile \in StoreProfiles :
          /\ call' = [fn |-> "upsert_profile", profile |-> profile]
          /\ files' = upsert_profile(files, profile).files
          /\ ret' = upsert_profile(files, profile).ret
    /\ pc' = "returned"
    /\ UNCHANGED <<ran, lib, procs, bulk>>

DeleteCall ==
    /\ pc = "idle"
    /\ \E name \in StoreNames :
          /\ call' = [fn |-> "delete_profile", name |-> name]
          /\ files' = delete_profile(files, name).files
          /\ ret' = delete_profile(files, name).ret
    /\ pc' = "returned"
    /\ UNCHANGED <<ran, lib, procs, bulk>>

GetCall ==
    /\ pc = "idle"
    /\ \E name \in StoreNames :
          /\ call' = [fn |-> "get_profile", name |-> name]
          /\ ret' = get_profile(files, name)
    /\ pc' = "returned"
    /\ UNCHANGED <<ran, lib, files, procs, bulk>>

NextStore == UpsertCall \/ DeleteCall \/ GetCall \/ Return

SpecStore == InitStore /\ [][NextStore]_vars

\* a step in which `fn` runs from call to return (a call that raises, as a
\* save does when neither file can be written, is no upsert and no delete)
Runs(fn) == pc = "idle" /\ pc' = "returned" /\ call'.fn = fn /\ ret'.kind # "raise"

\* get_profile gives the same for every name but `name` before and after
OthersKept(name) ==
    \A n \in StoreNames \ {name} : get_profile(files', n) = get_profile(files, n)

\* what last-write-wins asks of one step of the store
LastWriteWinsStep ==
    /\ Runs("upsert_profile") =>
          /\ ret' = ProfileRet(call'.profile)
          /\ get_profile(files', call'.profile.name) = Stored(call'.profile)
          /\ OthersKept(call'.profile.name)
    /\ Runs("delete_profile") =>
          /\ ret' = BoolRet(get_profile(files, call'.name) # Absent)
          /\ get_profile(files', call'.name) = Absent
          /\ OthersKept(call'.name)

(* C11: the profile store is keyed by name with last-write-wins, whatever   *)
(* the files' states: an upsert makes get_profile of its name return its    *)
(* profile and a delete makes it absent, each leaving the other names as    *)
(* they were, so that after any sequence of them get_profile(name) is the   *)
(* most recent upsert not followed by a delete; delete_profile returns true *)
(* exactly when the name was present.                                       *)
C11_LastWriteWins == [][LastWriteWinsStep]_vars

\* the file load_profiles reads is the file save_profiles writes
SavesWhereItLoads ==
    \/ files.primary_writable
    \/ files.primary.kind # "dict" /\ files.fallback_writable

\* C11 holds of every step taken while the store loads what it saves
C11_WhenSavesWhereItLoads == [][SavesWhereItLoads => LastWriteWinsStep]_vars

\* an upsert went to the fallback file while PROFILE_FILE, read-only, still
\* holds the document load_profiles reads: the name is not there afterwards
C11_UpsertLost ==
    /\ pc = "returned" /\ call.fn = "upsert_profile"
    /\ ret = ProfileRet(call.profile)
    /\ get_profile(files, call.profile.name) # Stored(call.profile)

----------------------------------------------------------------------------
(* POST /annotate and POST /cut-section *)

CutSectionCall ==
    /\ pc = "idle"
    /\ \E req \in AnnotateRequests :
          /\ call' = [fn |-> "cut_section", req |-> req]
          /\ ret' = cut_section(req)
    /\ pc' = "returned"
    /\ UNCHANGED <<ran, lib>>
    /\ UNCHANGED <<files, procs, bulk>>

NextSection == AnnotateCall \/ CutSectionCall \/ Return

SpecSection == Init /\ [][NextSection]_vars

\* the request named a profile, the store has none of that name, and the
\* request got as far as looking it up
ProfileLookedUpAndAbsent ==
    /\ pc = "returned" /\ call.fn \in {"annotate", "cut_section"}
    /\ call.req.template = "ok" /\ call.req.image_ok
    /\ call.req.detection.kind = "detection"
    /\ call.fn = "annotate" => call.req.thickness <= 32767
    /\ ~IsNone(call.req.profile) /\ Val(call.req.profile) # ""
    /\ call.req.lookup = Absent

(* C12: in /annotate, as in /cut-section, a request that names a profile    *)
(* the store does not hold fails with 404 "Profile not found" and returns   *)
(* no annotated image.                                                      *)
C12_MissingProfileIs404 ==
    ProfileLookedUpAndAbsent => ret = HttpError(404, "Profile not found")

\* it does in /cut-section
C12_CutSectionIs404 ==
    (ProfileLookedUpAndAbsent /\ call.fn = "cut_section") =>
        ret = HttpError(404, "Profile not found")

\* /annotate answers the same request with the image and its primary bbox
C12_AnnotateReturnsImage ==
    /\ ProfileLookedUpAndAbsent /\ call.fn = "annotate"
    /\ ret = ImageResponse(<<Rect(call.req.detection.bbox, "red", call.req.thickness)>>)

----------------------------------------------------------------------------
(* The profile store, two operations at a time *)

\* The PUT and DELETE /profiles endpoints are plain `def` handlers, which the
\* server runs on worker threads: two of them can be between their
\* load_profiles and their save_profiles at once.
ProcIds == {1, 2}

IdleProc == [pc |-> "idle", op |-> NoCall, data |-> {}, ret |-> NoRet]

\* both files can be written and PROFILE_FILE holds the document
InitConcurrent ==
    /\ pc = "idle"
    /\ call = NoCall
    /\ ret = NoRet
    /\ ran = <<>>
    /\ lib = NoLib
    /\ files \in [primary : { Document(d) : d \in Dicts }, fallback : {Missing},
                  primary_writable : {TRUE}, fallback_writable : {TRUE}]
    /\ procs = [self \in ProcIds |-> IdleProc]
    /\ bulk = NoBulk

\* upsert_profile, line 96: data = load_profiles()
UpsertLoad ==
    \E self \in ProcIds, profile \in StoreProfiles :
        /\ procs[self].pc = "idle"
        /\ procs' = [procs EXCEPT ![self] =
                        [pc |-> "loaded",
                         op |-> [fn |-> "upsert_profile", profile |-> profile],
                         data |-> load_profiles(files), ret |-> NoRet]]
        /\ UNCHANGED <<pc, call, ret, ran, lib, files, bulk>>

\* upsert_profile, lines 97-99: set the entry, save_profiles(data), return
UpsertSave ==
    \E self \in ProcIds :
        /\ procs[self].pc = "loaded"
        /\ procs[self].op.fn = "upsert_profile"
        /\ files' = save_profiles(files, with_profile(procs[self].data, procs[self].op.profile))
        /\ procs' = [procs EXCEPT ![self].pc = "done",
                                  ![self].ret = ProfileRet(procs[self].op.profile)]
        /\ UNCHANGED <<pc, call, ret, ran, lib, bulk>>

\* delete_profile, lines 103-104 and 108: load, and return False when the
\* name is not in the data
DeleteLoad ==
    \E self \in ProcIds, name \in StoreNames :
        /\ procs[self].pc = "idle"
        /\ LET data == load_profiles(files)
           IN  procs' = [procs EXCEPT ![self] =
                   [pc |-> IF has_name(data, name) THEN "loaded" ELSE "done",
                    op |-> [fn |-> "delete_profile", name |-> name],
                    data |-> data,
                    ret |-> IF has_name(data, name) THEN NoRet ELSE BoolRet(FALSE)]]
        /\ UNCHANGED <<pc, call, ret, ran, lib, files, bulk>>

\* delete_profile, lines 105-107: delete the entry, save_profiles(data), return True
DeleteSave ==
    \E self \in ProcIds :
        /\ procs[self].pc = "loaded"
        /\ procs[self].op.fn = "delete_profile"
        /\ files' = save_profiles(files, without_name(procs[self].data, procs[self].op.name))
        /\ procs' = [procs EXCEPT ![self].pc = "done", ![self].ret = BoolRet(TRUE)]
        /\ UNCHANGED <<pc, call, ret, ran, lib, bulk>>

NextConcurrent == UpsertLoad \/ UpsertSave \/ DeleteLoad \/ DeleteSave

SpecConcurrent == InitConcurrent /\ [][NextConcurrent]_vars

\* the name an operation is about
OpName(op) == IF op.fn = "upsert_profile" THEN op.profile.name ELSE op.name

\* the store shows the operation's effect
EffectKept(op) ==
    IF op.fn = "upsert_profile"
    THEN get_profile(files, op.profile.name) = Stored(op.profile)
    ELSE get_profile(files, op.name) = Absent

\* both operations have completed, and they were about different names
BothDoneOnDifferentNames ==
    /\ DOMAIN procs = ProcIds
    /\ \A self \in ProcIds : procs[self].pc = "done"
    /\ OpName(procs[1].op) # OpName(procs[2].op)

(* C13: when two upsert_profile calls for different names, or an upsert and *)
(* a delete_profile of another name, run concurrently with their load and   *)
(* save steps interleaved in any order, neither update is lost: once both   *)
(* have completed the store holds the effect of both.                       *)
C13_NoLostUpdate ==
    BothDoneOnDifferentNames => \A self \in ProcIds : EffectKept(procs[self].op)

\* two upserts of different names have completed and the first to save is
\* not in the store
C13_UpsertLost ==
    /\ BothDoneOnDifferentNames
    /\ \A self \in ProcIds : procs[self].op.fn = "upsert_profile"
    /\ \E self \in ProcIds : ~EffectKept(procs[self].op)

\* whatever the interleaving, the effect of at least one of the two is kept
C13_OneEffectKept ==
    BothDoneOnDifferentNames => \E self \in ProcIds : EffectKept(procs[self].op)

----------------------------------------------------------------------------
(* POST /cut-section-bulk *)

\* lines 229-236: read the template once, open the archive
BulkCall ==
    /\ pc = "idle"
    /\ \E form \in BulkForms, images \in UploadLists :
          /\ call' = [fn |-> "cut_section_bulk", req |-> form, images |-> images]
          /\ IF form.template = "missing"
             THEN /\ pc' = "returned"
                  /\ ret' = HttpError(400, "No template provided")
                  /\ bulk' = NoBulk
             ELSE IF form.template = "undecodable"
             THEN /\ pc' = "returned"
                  /\ ret' = Raised("ValueError")
                  /\ bulk' = NoBulk
             ELSE /\ pc' = "bulk_loop"
                  /\ ret' = NoRet
                  /\ bulk' = [next |-> 1, manifest |-> <<>>, archive |-> <<>>]
    /\ UNCHANGED <<ran, lib, files, procs>>

\* lines 237-288: one pass of the loop
BulkImage ==
    /\ pc = "bulk_loop"
    /\ bulk.next <= Len(call.images)
    /\ LET out == bulk_image(call.req, call.images[bulk.next])
       IN  bulk' = [next |-> bulk.next + 1,
                    manifest |-> bulk.manifest \o out.manifest,
                    archive |-> bulk.archive \o out.archive]
    /\ UNCHANGED <<pc, call, ret, ran, lib, files, procs>>

\* lines 289-294: after the loop, write manifest.json and answer with the archive
BulkFinish ==
    /\ pc = "bulk_loop"
    /\ bulk.next > Len(call.images)
    /\ pc' = "returned"
    /\ ret' = ZipResponse(bulk.archive \o <<ManifestFile(bulk.manifest)>>)
    /\ bulk' = NoBulk
    /\ UNCHANGED <<call, ran, lib, files, procs>>

NextBulk == BulkCall \/ BulkImage \/ BulkFinish \/ Return

SpecBulk == Init /\ [][NextBulk]_vars

Statuses == {"ok", "logo_not_found", "profile_not_found", "no_section_params", "error"}

\* the manifest has one entry for each of the first n uploads, in upload
\* order, each with a status of the manifest
OneEntryEach(manifest, n) ==
    /\ Len(manifest) = n
    /\ \A k \in 1..n :
          /\ manifest[k].file = call.images[k].filename
          /\ manifest[k].status \in Statuses

\* an upload that cannot give a section: it does not decode, detection raises
\* or finds nothing, its profile is missing or invalid, or the geometry raises
FailingUpload(k) ==
    LET u == call.images[k]
    IN  \/ ~u.image_ok
        \/ u.detection.kind # "detection"
        \/ secondary_bbox(image_request(call.req, u)).kind # "bbox"

\* the entry of upload k is the one the upload gets in a request of its own
SameAsAlone(manifest, k) ==
    manifest[k] = bulk_image(call.req, call.images[k]).manifest[1]

BulkRunning == pc = "bulk_loop" /\ call.fn = "cut_section_bulk"

BulkAnswered ==
    /\ pc = "returned" /\ call.fn = "cut_section_bulk"
    /\ call.req.template = "ok"

(* C14: in /cut-section-bulk every uploaded image yields exactly one        *)
(* manifest entry, in upload order, with status ok, logo_not_found,         *)
(* profile_not_found, no_section_params or error; a failure on one image    *)
(* neither aborts the batch nor changes what later images get, and          *)
(* manifest.json is always written to the archive.                          *)
C14_OneEntryPerImage ==
    /\ BulkRunning => OneEntryEach(bulk.manifest, bulk.next - 1)
    /\ BulkAnswered =>
          /\ ret.kind = "zip"
          /\ LET last == ret.archive[Len(ret.archive)]
             IN  /\ last.member = "manifest.json"
                 /\ OneEntryEach(last.manifest, Len(call.images))
                 /\ \A k \in 1..Len(call.images) : SameAsAlone(last.manifest, k)
                 /\ \A k \in 1..(Len(ret.archive) - 1) : ret.archive[k].member = "section"

\* the first upload failed, a later one was cut, and the manifest has both
C14_Witness ==
    /\ BulkAnswered
    /\ Len(call.images) >= 2
    /\ FailingUpload(1)
    /\ LET last == ret.archive[Len(ret.archive)]
       IN  /\ last.member = "manifest.json"
           /\ Len(last.manifest) = Len(call.images)
           /\ last.manifest[1].status # "ok"
           /\ last.manifest[Len(call.images)].status = "ok"
    /\ Len(ret.archive) = 2

\* every status of the manifest is produced
C14_AllStatusesReached ==
    /\ BulkAnswered
    /\ Len(call.images) = MaxImages
    /\ LET last == ret.archive[Len(ret.archive)]
       IN  /\ last.manifest[1].status = "profile_not_found"
           /\ last.manifest[2].status = "error"

====
